---------------------------- MODULE Spec2Model ----------------------------
(***************************************************************************)
(* A model of tempit (src/tempit/core.py, src/tempit/utils.py): the        *)
(* decorator's wrapper, its recursion guard (a deque, a flag, a lock and   *)
(* an accumulator captured in the closure), the execution strategy         *)
(* selector with its fallback, and the concurrent runner.                  *)
(*                                                                         *)
(* Every thread owns a Python call stack (frames[t]); a frame is either an *)
(* activation of tempit_wrapper or an activation of the user's target.     *)
(* One step of a thread executes one access of the state shared with other *)
(* threads (the deque, the flag, the lock, the accumulator) together with  *)
(* the thread's own code that leads to it, so that every interleaving of   *)
(* those accesses is explored.                                             *)
(***************************************************************************)
EXTENDS Integers, Sequences, FiniteSets, TLC

\* ------------------------------------------------------------------ bounds
\* Calls of the decorated callable made from outside, by all threads together.
MaxCalls == 2
\* Largest argument of the calls: the recursion depth of the self-recursive target.
MaxDepth == 1
\* Largest configured run_times of a target that calls the decorated name
\* (the smallest is -1).
MaxRunTimes == 2
\* Largest os.cpu_count() of the machine.
MaxCores == 3
\* perf_counter units that one execution of the target's body takes.
TargetTicks == 1
\* perf_counter units between entering the wrapper and line 91.
GuardTicks == 1
\* Direct calls of format_time: how many microseconds either side of a
\* threshold are tried.
MaxOffset == 1

\* Most explicit arguments of a call of a decorated method.
MaxArgs == 2

\* Direct calls of update_total_times: the largest time_wasted, the largest
\* measured duration and the longest list of durations.
MaxWasted == 3
MaxDuration == 3
MaxSamples == 2

\* --------------------------------------------------------------- identities
MainProcess == "MainProcess"
LokyProcess == "LokyProcess"
Procs == {MainProcess, LokyProcess}

\* A thread is <<process name, thread name, index>>.
MainThread == <<MainProcess, "MainThread", 0>>
OtherThread == <<MainProcess, "Thread", 1>>
LokyMain == <<LokyProcess, "MainThread", 0>>
NoThread == <<"", "", 0>>
Worker(p, i) == <<p, "Worker", i>>

\* Largest configured run_times of the other targets: one more, so that a
\* batch is asked for more replicas than the largest machine has workers.
MaxRequested == MaxRunTimes + 1

\* n_jobs = -2: joblib starts one worker per core but one.
MaxWorkers == MaxCores - 1
WorkerThreads == {Worker(p, i) : p \in Procs, i \in 1..MaxWorkers}
CallerThreads == {MainThread, OtherThread}
Threads == CallerThreads \cup {LokyMain} \cup WorkerThreads
ProcOf(t) == t[1]

\* The identity of the decorated function (the deque holds such identities).
func == "func"

\* What the user's target does.
\*   returns          a + b, no re-entry                       (test_tempit_args)
\*   raises           raises on every invocation
\*   recursive        calls the decorated name with n - 1      (recursive_func)
\*   crash_in_worker  raises unless run by MainThread of MainProcess
\*                                                 (test_tempit_multithreading_crash)
\*   raises_later     returns the first time it runs in a process, raises after
\*   counter          returns a + b plus the number of times it has run before
\*                    in the process
Behaviours == {"returns", "raises", "recursive", "crash_in_worker", "raises_later",
               "counter"}

\* None: no value yet
NoValue == 0 - 1

VARIABLES
  ACTIVE,                         \* TempitConfig.ACTIVE when the module is imported
  ACTIVE_now,                     \* TempitConfig.ACTIVE at present
  decoration,                     \* how the decorator is applied: bare or called
  keywords,                       \* the keyword arguments of the call of tempit
  entity,                         \* what is decorated: a function or a class
  run_times,                      \* the decorator's configuration
  concurrent_execution,
  verbose,
  behaviour,                      \* the user's target
  arg,                            \* the argument of the calls made from outside
  num_cores,                      \* os.cpu_count()
  picklable,                      \* whether loky can send the target to a process
  callers,                        \* the threads that call from outside
  potential_recursion_func_stack, \* per process: the guard's deque
  is_recursive,                   \* per process: the closure's flag
  time_wasted,                    \* per process: the accumulator
  time_wasted_lock,               \* per process: the thread holding the lock
  perf_counter,                   \* per thread: time.perf_counter() as the thread
                                  \* reads it, counted from the start of its work
  frames,                         \* per thread: its call stack
  calls,                          \* per caller: calls started so far
  outcome,                        \* per caller: how its last call ended
  path,                           \* per caller: the strategies its call went through
  reported,                       \* per caller: reports its current call printed
  nested_reports,                 \* reports printed by calls made by the target
  last_report,                    \* the last report printed
  wasted_added,                   \* per process: sum of the increments executed
  pool,                           \* per process: the joblib batch in progress
  unit,                           \* a direct call of one function of the package,
                                  \* as the unit tests make: its arguments and result
  invocations                     \* per process: activations of the target so far

settings == <<ACTIVE, decoration, keywords, entity, run_times, concurrent_execution,
              verbose, behaviour, arg, num_cores, picklable, callers>>
config == <<settings, ACTIVE_now>>
guard == <<potential_recursion_func_stack, is_recursive, time_wasted,
           time_wasted_lock, wasted_added>>
output == <<reported, nested_reports, last_report>>
vars == <<config, guard, perf_counter, frames, calls, outcome, path, output, pool,
          unit, invocations>>

\* ------------------------------------------------------------------ target
\* The value the undecorated target returns for argument n. The self-recursive
\* target calls the decorated name once per activation (recursive_func of
\* examples.py calls it twice).
RECURSIVE recursive_func(_)
recursive_func(n) == IF n < 1 THEN n + 1 ELSE recursive_func(n - 1) + n + 1

Undecorated(b, n) == IF b = "recursive" THEN recursive_func(n) ELSE n + 2

\* The time the activation takes that starts after k earlier ones in its
\* process: the counting target is slower each time it runs.
TargetTime(b, k) == IF b = "counter" THEN TargetTicks + k ELSE TargetTicks

\* The value of the activation that starts after k earlier ones in its process.
TargetResult(b, n, k) == IF b = "counter" THEN Undecorated(b, n) + k ELSE Undecorated(b, n)

\* -------------------------------------------------------------- decoration
Decorations == {"@tempit", "@tempit(...)", "tempit(f, ...)"}
Entities == {"function", "class"}

\* line 16: *args holds the callable in the bare form and when the callable is
\* passed together with keywords.
Positional(deco) == deco \in {"@tempit", "tempit(f, ...)"}

\* line 16: the defaults of tempit, which are those of decorator (line 67)
Defaults == [run_times |-> 1, concurrent_execution |-> FALSE, verbose |-> FALSE]

\* decorator(*args, run_times=..., concurrent_execution=..., verbose=...)
KeywordsForwarded(deco, kw) == kw

\* lines 123-127: the arguments that decorator runs with. decorator(*args) of
\* line 124 receives the callable only and takes its own defaults; the partial
\* of line 127 carries the keywords.
DecoratorArguments(deco, kw) == IF Positional(deco) THEN Defaults ELSE kw

\* decorator wrapping whatever it is given.
DecoratorOfAnything(kind) == "tempit_wrapper"

\* decorator, lines 66-72 and 119-121: a class is returned as it is, a function
\* is replaced by the closure tempit_wrapper.
decorator(kind) == IF kind = "class" THEN "original" ELSE "tempit_wrapper"

\* tempit that does not read TempitConfig.ACTIVE.
tempit_always(active, deco, kind) ==
  IF Positional(deco) THEN decorator(kind) ELSE "decorator"

\* tempit, lines 59-64 and 123-127: what the call of tempit returns. With a
\* positional argument args holds the entity; in the called form args is empty
\* and the result is applied to the entity next.
tempit(active, deco, kind) ==
  IF ~active
    THEN IF Positional(deco) THEN "original" ELSE "lambda f: f"
    ELSE IF Positional(deco) THEN decorator(kind) ELSE "decorator"

\* What the decorated name is bound to.
Bound(active, deco, kind) ==
  LET r == tempit(active, deco, kind)
  IN  IF r = "lambda f: f" THEN "original"
      ELSE IF r = "decorator" THEN decorator(kind)
      ELSE r

\* The wrapper reading the flag at each call.
InstrumentedWhileActive ==
  Bound(ACTIVE, decoration, entity) = "tempit_wrapper" /\ ACTIVE_now

\* The name was bound when the module was imported: lines 59-64 are run by the
\* decoration, with the flag of that time.
Instrumented == Bound(ACTIVE, decoration, entity) = "tempit_wrapper"

\* ------------------------------------------------------------------ frames
Blank ==
  [fn |-> "", pc |-> "", n |-> 0, outer |-> FALSE, start_time |-> 0,
   ret |-> <<0, FALSE, FALSE>>, run_times_final |-> 0,
   concurrent_execution_final |-> FALSE, run_times |-> 0, i |-> 0,
   result |-> NoValue, total_times |-> <<>>, loop_start |-> 0,
   fe_start |-> 0, real_time |-> 0, read |-> 0, end_time |-> 0,
   backend |-> "", replicas |-> 0, attempts |-> 0, pool_start |-> 0,
   fallback |-> FALSE, non_empty |-> FALSE]

Stack(t) == potential_recursion_func_stack[ProcOf(t)]

\* tempit_wrapper entered by thread t: line 83 has read the clock and line 165
\* has taken the truth value of the deque (its first conjunct).
WrapperFrame(t, n, outer, now) ==
  [Blank EXCEPT !.fn = "wrapper", !.n = n, !.outer = outer, !.start_time = now,
                !.non_empty = (Stack(t) # <<>>),
                !.pc = IF Stack(t) # <<>> THEN "check_top" ELSE "push_top"]

\* The user's function entered with argument n.
TargetFrame(n) == [fn |-> "target", pc |-> "body", n |-> n]

Depth(t) == Len(frames[t])
Top(t) == frames[t][Depth(t)]
At(t, fn, pc) == Depth(t) > 0 /\ Top(t).fn = fn /\ Top(t).pc = pc
SetTop(t, f) == [frames EXCEPT ![t] = [@ EXCEPT ![Len(@)] = f]]
PushFrame(t, f, g) == [frames EXCEPT ![t] = Append([@ EXCEPT ![Len(@)] = f], g)]

\* ------------------------------------------------------------------- times
\* A float is kept as an exact fraction <<numerator, denominator>>.
Frac(a, b) == <<a, b>>
FracLess(x, y) == x[1] * y[2] < y[1] * x[2]
FracEq(x, y) == x[1] * y[2] = y[1] * x[2]

\* x - time_wasted / len without the floor
Unfloored(x, tw, len) == Frac(x[1] * len - tw * x[2], x[2] * len)

\* max(x - time_wasted / len, 0)
Corrected(x, tw, len) ==
  LET d == Frac(x[1] * len - tw * x[2], x[2] * len)
  IN  IF d[1] < 0 THEN Frac(0, 1) ELSE d

update_total_times(total_times, tw) ==
  IF tw = 0
    THEN total_times
    ELSE [k \in 1..Len(total_times) |->
            Corrected(total_times[k], tw, Len(total_times))]

\* ------------------------------------------------------ leaving a frame
NoPool == [owner |-> NoThread, backend |-> "", n |-> 0, rep |-> <<>>]
\* A replica: todo, running, returned or raised; its value; the time it ended.
Replica(st, v, at) == [st |-> st, v |-> v, at |-> at]

\* The pool and the replica that thread t works for.
PoolOf(t) == IF t = LokyMain THEN MainProcess ELSE ProcOf(t)
ReplicaOf(t) ==
  IF t = LokyMain
    THEN CHOOSE k \in 1..Len(pool[MainProcess].rep) :
           pool[MainProcess].rep[k].st = "running"
    ELSE t[3]

\* The bottom frame of thread t has ended: a caller gets the outcome of its
\* call, a worker hands the outcome of its replica to the pool.
Finish(t, st, v, pools) ==
  IF t \in CallerThreads
    THEN /\ outcome' = [outcome EXCEPT ![t] = [@ EXCEPT !.status = st, !.value = v]]
         /\ pool' = pools
    ELSE /\ pool' = [pools EXCEPT ![PoolOf(t)].rep[ReplicaOf(t)] =
                                   Replica(st, v, perf_counter'[t])]
         /\ UNCHANGED outcome

\* The duration put in front of the list.
Prepended(total_times, d) == <<d>> \o total_times

\* line 266: total_times.append(end_time - start_time)
Appended(total_times, d) == Append(total_times, d)

\* The activation c of tempit_wrapper gets the value v that the target
\* returns at time now.
Resume(c, v, now) ==
  IF c.pc = "rec_wait"
    \* line 93
    THEN [c EXCEPT !.result = v, !.pc = "rec_pop"]
    \* lines 264-266, and the loop's test of line 261
    ELSE [c EXCEPT !.result = v,
                   !.total_times = Appended(@, Frac(now - c.loop_start, 1)),
                   !.i = @ + 1,
                   !.pc = IF c.i + 1 < c.run_times THEN "seq_loop" ELSE "update"]

\* An activation of the target returns v at time now in thread t; below are
\* the frames under it.
TargetReturn(t, below, v, now) ==
  /\ perf_counter' = [perf_counter EXCEPT ![t] = now]
  /\ IF below # <<>>
       THEN /\ frames' = [frames EXCEPT ![t] =
                 [below EXCEPT ![Len(below)] = Resume(@, v, now)]]
            /\ UNCHANGED <<outcome, pool>>
       ELSE /\ frames' = [frames EXCEPT ![t] = <<>>]
            /\ Finish(t, "returned", v, pool)

\* The top activation of tempit_wrapper returns v. A caller from outside has
\* its outcome; the self-recursive target that called goes on to its own
\* return (recursive_func: the sum of line 130).
ReturnFrom(t, v) ==
  LET s == frames[t]
      k == Len(s)
  IN  IF k > 1
        THEN TargetReturn(t, SubSeq(s, 1, k - 2), v + s[k - 1].n + 1,
                          perf_counter[t] + TargetTicks)
        ELSE /\ UNCHANGED perf_counter
             /\ frames' = [frames EXCEPT ![t] = <<>>]
             /\ Finish(t, "returned", v, pool)

\* A failing run of the sequential loop skipped once an earlier run has
\* returned: the loop goes on with the result it has.
RaiseSkippedByLoop(t, e, pools) ==
  IF /\ frames[t] # <<>>
     /\ frames[t][1].fn = "wrapper"
     /\ frames[t][1].pc = "seq_wait"
     /\ frames[t][1].i >= 1
    THEN /\ frames' = [frames EXCEPT ![t] =
              <<[frames[t][1] EXCEPT
                   !.i = @ + 1,
                   !.total_times = Append(@, Frac(0, 1)),
                   !.pc = IF frames[t][1].i + 1 < frames[t][1].run_times
                            THEN "seq_loop" ELSE "update"]>>]
         /\ pool' = pools
         /\ UNCHANGED outcome
    ELSE /\ frames' = [frames EXCEPT ![t] = <<>>]
         /\ Finish(t, "raised", e, pools)

\* No frame of tempit or of the target catches an exception raised in its own
\* thread (the only handler, lines 222 and 311-323, guards calls that run the
\* target in other threads): the exception unwinds the whole stack of t.
RaiseWith(t, e, pools) ==
  /\ frames' = [frames EXCEPT ![t] = <<>>]
  /\ Finish(t, "raised", e, pools)

\* The same when the step that raises leaves the clock of t alone.
RaiseIn(t, e) == UNCHANGED perf_counter /\ RaiseWith(t, e, pool)

\* The strategies the call from outside of thread t has gone through.
Took(t, f, tag) ==
  IF f.outer THEN path' = [path EXCEPT ![t] = @ \cup {tag}] ELSE UNCHANGED path

\* ----------------------------------------------------------------- calls
\* A caller thread calls the decorated callable from outside.
Call(t) ==
  /\ t \in callers
  /\ frames[t] = <<>>
  /\ calls[MainThread] + calls[OtherThread] < MaxCalls
  /\ perf_counter' = [perf_counter EXCEPT ![t] = 0]
  /\ frames' = [frames EXCEPT ![t] =
       IF Instrumented THEN <<WrapperFrame(t, arg, TRUE, 0)>> ELSE <<TargetFrame(arg)>>]
  /\ calls' = [calls EXCEPT ![t] = @ + 1]
  /\ outcome' = [outcome EXCEPT ![t] = [status |-> "running", value |-> NoValue]]
  /\ reported' = [reported EXCEPT ![t] = 0]
  /\ path' = [path EXCEPT ![t] = {}]
  /\ UNCHANGED <<config, unit, invocations, guard, nested_reports, last_report, pool>>

\* ------------------------------------------- check_is_recursive_func
\* line 165, second conjunct: potential_recursion_func_stack[-1] == func.
CheckTop(t) ==
  /\ At(t, "wrapper", "check_top")
  /\ UNCHANGED <<config, unit, invocations, guard, calls, path, output>>
  /\ IF Stack(t) = <<>>
       THEN RaiseIn(t, "IndexError")
       ELSE /\ frames' = SetTop(t, [Top(t) EXCEPT !.pc =
                   IF Stack(t)[Len(Stack(t))] = func THEN "push_rec" ELSE "push_top"])
            /\ UNCHANGED <<perf_counter, outcome, pool>>

\* The append of another object than the decorated one: the function it wraps.
PushedWrapped(stack, f) == Append(stack, "func.__wrapped__")

\* lines 166 and 171: potential_recursion_func_stack.append(func)
Pushed(stack, f) == Append(stack, f)

\* deque.clear(): the pop that empties the stack.
Cleared(stack) == <<>>

\* lines 94 and 107: deque.pop() of a deque that is not empty
Popped(stack) == SubSeq(stack, 1, Len(stack) - 1)

\* lines 166-170
PushRecursive(t) ==
  /\ At(t, "wrapper", "push_rec")
  /\ potential_recursion_func_stack' =
       [potential_recursion_func_stack EXCEPT ![ProcOf(t)] = Pushed(@, func)]
  /\ frames' = SetTop(t, [Top(t) EXCEPT !.ret = <<1, FALSE, TRUE>>, !.pc = "store"])
  /\ UNCHANGED <<config, unit, invocations, is_recursive, time_wasted, time_wasted_lock, wasted_added,
                 perf_counter, calls, outcome, path, output, pool>>

\* lines 171-172
PushTopLevel(t) ==
  /\ At(t, "wrapper", "push_top")
  /\ potential_recursion_func_stack' =
       [potential_recursion_func_stack EXCEPT ![ProcOf(t)] = Pushed(@, func)]
  /\ frames' = SetTop(t, [Top(t) EXCEPT
                 !.ret = <<run_times, concurrent_execution, FALSE>>, !.pc = "store"])
  /\ UNCHANGED <<config, unit, invocations, is_recursive, time_wasted, time_wasted_lock, wasted_added,
                 perf_counter, calls, outcome, path, output, pool>>

\* ---------------------------------------------------------- tempit_wrapper
\* line 84: the returned tuple is unpacked into two locals and the closure's
\* is_recursive (nonlocal, line 81).
StoreClassification(t) ==
  /\ At(t, "wrapper", "store")
  /\ is_recursive' = [is_recursive EXCEPT ![ProcOf(t)] = Top(t).ret[3]]
  /\ frames' = SetTop(t, [Top(t) EXCEPT !.run_times_final = Top(t).ret[1],
                                         !.concurrent_execution_final = Top(t).ret[2],
                                         !.pc = "branch"])
  /\ UNCHANGED <<config, unit, invocations, potential_recursion_func_stack, time_wasted, time_wasted_lock,
                 wasted_added, perf_counter, calls, outcome, path, output, pool>>

\* line 89
Branch(t) ==
  /\ At(t, "wrapper", "branch")
  /\ frames' = SetTop(t, [Top(t) EXCEPT !.pc =
                 IF is_recursive[ProcOf(t)] THEN "lock" ELSE "exec"])
  /\ UNCHANGED <<config, unit, invocations, guard, perf_counter, calls, outcome, path, output, pool>>

\* A lock that never blocks: lines 91-92 without the with statement.
LockIgnored(p) == TRUE

\* line 90: threading.Lock blocks while another thread holds it.
LockAvailable(p) == time_wasted_lock[p] = NoThread

\* lines 90-91, and line 92's load of time_wasted
AcquireLock(t) ==
  /\ At(t, "wrapper", "lock")
  /\ LockAvailable(ProcOf(t))
  /\ time_wasted_lock' = [time_wasted_lock EXCEPT ![ProcOf(t)] = t]
  /\ perf_counter' = [perf_counter EXCEPT ![t] = @ + GuardTicks]
  /\ frames' = SetTop(t, [Top(t) EXCEPT !.end_time = perf_counter'[t],
                                         !.read = time_wasted[ProcOf(t)],
                                         !.pc = "tw_write"])
  /\ UNCHANGED <<config, unit, invocations, potential_recursion_func_stack, is_recursive, time_wasted,
                 wasted_added, calls, outcome, path, output, pool>>

\* The with block extended over line 93: the lock stays with the thread.
HolderKept(t) == t

\* The holder of the lock once the with block of lines 90-92 is left.
HolderAfterWith(t) == NoThread

\* time_wasted = end_time - start_time: the assignment that forgets the sum.
Replaced(read, d) == d

\* line 92: time_wasted += end_time - start_time
Accumulated(read, d) == read + d

\* line 92's store of time_wasted, the end of the with block, and line 93:
\* run_func_recursive calls the target (line 245)
WriteWasted(t) ==
  /\ At(t, "wrapper", "tw_write")
  /\ time_wasted' = [time_wasted EXCEPT ![ProcOf(t)] =
                       Accumulated(Top(t).read, Top(t).end_time - Top(t).start_time)]
  /\ wasted_added' = [wasted_added EXCEPT ![ProcOf(t)] =
                       @ + (Top(t).end_time - Top(t).start_time)]
  /\ time_wasted_lock' = [time_wasted_lock EXCEPT ![ProcOf(t)] = HolderAfterWith(t)]
  /\ frames' = PushFrame(t, [Top(t) EXCEPT !.pc = "rec_wait"], TargetFrame(Top(t).n))
  /\ Took(t, Top(t), "recursive")
  /\ UNCHANGED <<config, unit, invocations, potential_recursion_func_stack, is_recursive, perf_counter,
                 calls, outcome, output, pool>>

\* lines 94-95
PopRecursive(t) ==
  /\ At(t, "wrapper", "rec_pop")
  /\ UNCHANGED <<config, unit, invocations, is_recursive, time_wasted, time_wasted_lock, wasted_added,
                 calls, path, output>>
  /\ IF Stack(t) = <<>>
       THEN /\ RaiseIn(t, "IndexError")
            /\ UNCHANGED potential_recursion_func_stack
       ELSE /\ potential_recursion_func_stack' =
                 [potential_recursion_func_stack EXCEPT ![ProcOf(t)] = Popped(@)]
            /\ ReturnFrom(t, Top(t).result)

\* ----------------------------------------------------- function_execution
\* function_execution without lines 216-217
Unclamped(rt) == rt

\* lines 216-219 and 225-226: the clamp, the clock, the choice of the strategy
Clamp(rt) == IF rt < 1 THEN 1 ELSE rt

FunctionExecution(t) ==
  /\ At(t, "wrapper", "exec")
  /\ LET rt == Clamp(Top(t).run_times_final)
     IN  frames' = SetTop(t, [Top(t) EXCEPT
           !.run_times = rt,
           !.fe_start = perf_counter[t],
           !.pc = IF rt > 1 /\ Top(t).concurrent_execution_final
                    THEN "concurrency" ELSE "seq_loop"])
  /\ UNCHANGED <<config, unit, invocations, guard, perf_counter, calls, outcome, path, output, pool>>

\* run_func_sequential, lines 260-264: one iteration calls the target. A loop
\* of no iteration leaves result unbound: line 267 raises UnboundLocalError.
RunSequential(t) ==
  /\ At(t, "wrapper", "seq_loop")
  /\ Took(t, Top(t), "sequential")
  /\ UNCHANGED <<config, unit, invocations, guard, calls, output>>
  /\ IF Top(t).i < Top(t).run_times
       THEN /\ frames' = PushFrame(t, [Top(t) EXCEPT !.loop_start = perf_counter[t],
                                                     !.pc = "seq_wait"],
                                   TargetFrame(Top(t).n))
            /\ UNCHANGED <<perf_counter, outcome, pool>>
       ELSE RaiseIn(t, "UnboundLocalError")

\* ---------------------------------------------------- run_func_concurrency
\* joblib's default backend whoever calls.
DefaultBackend(t) == "loky"

\* get_joblib_backend, lines 344-348 ("loky" stands for None, joblib's default)
get_joblib_backend(t) ==
  IF t[1] # "MainProcess" \/ t[2] # "MainThread" THEN "threading" ELSE "loky"

Max(a, b) == IF a > b THEN a ELSE b

\* The run count handed on as it was asked for.
Unadjusted(rt, cores) == rt

\* Every core counted as a worker.
AllCores(cores) == cores

\* utils.py line 198: the workers a batch may use
available_cpu_cores(cores) == Max(1, cores - 1)

\* The count returned as it is.
NotRaised(rt) == rt

\* utils.py lines 203-204
AtLeastOne(rt) == IF rt <= 1 THEN 1 ELSE rt

\* utils.py lines 196-205; cores = 0 stands for cpu_count() returning None
adjust_run_times_for_parallelism(rt, cores) ==
  AtLeastOne(IF cores # 0 /\ rt > available_cpu_cores(cores)
               THEN available_cpu_cores(cores)
               ELSE rt)

\* The fallback starting with a duration of the failed attempt.
FallBackKeepsBatch(f) ==
  [f EXCEPT !.fallback = TRUE, !.total_times = <<Frac(0, 1)>>, !.i = 0, !.pc = "seq_loop"]

\* The loop run with the count that run_func_concurrency has reduced at line
\* 300.
FallBackReduced(f) ==
  [f EXCEPT !.fallback = TRUE, !.total_times = <<>>, !.i = 0, !.pc = "seq_loop",
            !.run_times = adjust_run_times_for_parallelism(f.run_times, num_cores)]

\* line 224: the sequential loop is run with function_execution's run_times.
FallBack(f) ==
  [f EXCEPT !.fallback = TRUE, !.total_times = <<>>, !.i = 0, !.pc = "seq_loop"]

\* run_func_concurrency without the handlers of lines 319-323: e is re-raised.
Reraised(e) == e

\* lines 319-320 and 322-323: what run_func_concurrency raises when a replica
\* has raised e
ConcurrencyError(e) == "RuntimeError"

\* function_execution without the handler of line 222.
NotCaught(e) == FALSE

\* line 222: the exceptions that function_execution catches
Caught(e) == e = "RuntimeError"

\* lines 220-224: run_func_concurrency has raised e in thread t, whose top
\* frame is f; pools is the state of the pools once the attempt is over.
ConcurrencyFailed(t, f, e, pools) ==
  IF Caught(e)
    THEN /\ frames' = SetTop(t, FallBack(f))
         /\ Took(t, f, "concurrent_failed")
         /\ pool' = pools
         /\ UNCHANGED outcome
    ELSE /\ RaiseWith(t, e, pools)
         /\ Took(t, f, "concurrent_failed")

\* A batch of one replica allowed.
NeverDisqualified(adj) == FALSE

\* line 301: the adjusted count that makes run_func_concurrency give up
Disqualified(adj) == adj = 1

\* lines 298-302
PrepareConcurrency(t) ==
  /\ At(t, "wrapper", "concurrency")
  /\ UNCHANGED <<config, unit, invocations, guard, perf_counter, calls, output>>
  /\ LET adj == adjust_run_times_for_parallelism(Top(t).run_times, num_cores)
     IN  IF Disqualified(adj)
           THEN ConcurrencyFailed(t, Top(t), "RuntimeError", pool)
           ELSE /\ frames' = SetTop(t, [Top(t) EXCEPT !.backend = get_joblib_backend(t),
                                                      !.replicas = adj, !.pc = "dispatch"])
                /\ UNCHANGED <<outcome, path, pool>>

\* The pickling error treated as any other failure: no second attempt.
NoRetry(f) == [FallBack(f) EXCEPT !.attempts = f.attempts + 1]

\* lines 311-313: the handler of PicklingError starts over on threads, with
\* the same run_times
OnPicklingError(f) == [f EXCEPT !.backend = "threading", !.attempts = @ + 1]

\* lines 305-308 (first attempt) and 311-317 (the attempt on threads): joblib
\* either fails to pickle the task or hands one replica to each worker.
Dispatch(t) ==
  /\ At(t, "wrapper", "dispatch")
  /\ pool[ProcOf(t)] = NoPool
  /\ LET f == Top(t)
     IN  IF f.backend = "loky" /\ ~picklable
           THEN /\ frames' = SetTop(t, OnPicklingError(f))
                /\ UNCHANGED pool
           ELSE /\ frames' = SetTop(t, [f EXCEPT !.pool_start = perf_counter[t],
                                                 !.attempts = @ + 1,
                                                 !.pc = "parallel"])
                /\ pool' = [pool EXCEPT ![ProcOf(t)] =
                     [owner |-> t, backend |-> f.backend, n |-> f.n,
                      rep |-> [k \in 1..f.replicas |-> Replica("todo", NoValue, 0)]]]
  /\ UNCHANGED <<config, unit, invocations, guard, perf_counter, calls, outcome, path, output>>

\* A worker thread of the owner's process starts replica k: delayed(func)(...)
StartThreadReplica(p, k) ==
  /\ pool[p].backend = "threading"
  /\ k \in 1..Len(pool[p].rep)
  /\ pool[p].rep[k].st = "todo"
  /\ frames' = [frames EXCEPT ![Worker(p, k)] = <<TargetFrame(pool[p].n)>>]
  /\ perf_counter' = [perf_counter EXCEPT ![Worker(p, k)] = perf_counter[pool[p].owner]]
  /\ pool' = [pool EXCEPT ![p].rep[k].st = "running"]
  /\ UNCHANGED <<config, unit, invocations, guard, calls, outcome, path, output>>

\* A loky worker process runs replica k. The process has imported the module,
\* so the name is decorated there too (lines 74-77) and nothing of the guard
\* is shared with the caller's process. Worker processes share no state with
\* each other either: they are run one after another.
StartProcessReplica(k) ==
  LET b == pool[MainProcess]
  IN  /\ b.backend = "loky"
      /\ k \in 1..Len(b.rep)
      /\ b.rep[k].st = "todo"
      /\ \A j \in 1..Len(b.rep) : b.rep[j].st # "running" /\ (j < k => b.rep[j].st # "todo")
      /\ frames' = [frames EXCEPT ![LokyMain] = <<TargetFrame(b.n)>>]
      /\ perf_counter' = [perf_counter EXCEPT ![LokyMain] = perf_counter[b.owner]]
      /\ pool' = [pool EXCEPT ![MainProcess].rep[k].st = "running"]
      /\ potential_recursion_func_stack' =
           [potential_recursion_func_stack EXCEPT ![LokyProcess] = <<>>]
      /\ is_recursive' = [is_recursive EXCEPT ![LokyProcess] = FALSE]
      /\ time_wasted' = [time_wasted EXCEPT ![LokyProcess] = 0]
      /\ wasted_added' = [wasted_added EXCEPT ![LokyProcess] = 0]
      /\ time_wasted_lock' = [time_wasted_lock EXCEPT ![LokyProcess] = NoThread]
      /\ invocations' = [invocations EXCEPT ![LokyProcess] = 0]
      /\ UNCHANGED <<config, unit, calls, outcome, path, output>>

RECURSIVE LatestEnd(_, _)
LatestEnd(rep, k) == IF k = 0 THEN 0 ELSE Max(rep[k].at, LatestEnd(rep, k - 1))

\* run_func_concurrency returning no result.
ResultDropped(results) == NoValue

\* line 327: results[0]
ResultOf(results) == results[1].v

\* The whole elapsed time taken for the time of one run.
WholeElapsed(elapsed, n) == Frac(elapsed, 1)

\* line 325: (end_time - start_time) / run_times
average_runtimes(elapsed, n) == Frac(elapsed, n)

\* Parallel(...) returns or raises once every replica has ended:
\* lines 309 and 325-327, or lines 319-323.
Collect(t) ==
  /\ At(t, "wrapper", "parallel")
  /\ pool[ProcOf(t)].owner = t
  /\ LET b == pool[ProcOf(t)]
         f == Top(t)
         now == Max(perf_counter[t], LatestEnd(b.rep, Len(b.rep)))
         over == [pool EXCEPT ![ProcOf(t)] = NoPool]
         failed == {k \in 1..Len(b.rep) : b.rep[k].st = "raised"}
     IN  /\ \A k \in 1..Len(b.rep) : b.rep[k].st \in {"returned", "raised"}
         /\ perf_counter' = [perf_counter EXCEPT ![t] = now]
         /\ IF failed # {}
              THEN ConcurrencyFailed(t, f,
                     ConcurrencyError(b.rep[CHOOSE k \in failed : TRUE].v), over)
              ELSE /\ frames' = SetTop(t,
                        [f EXCEPT !.result = ResultOf(b.rep),
                                  \* line 326
                                  !.total_times = [k \in 1..f.replicas |->
                                    average_runtimes(now - f.pool_start, f.replicas)],
                                  !.pc = "update"])
                   /\ Took(t, f, "concurrent")
                   /\ pool' = over
                   /\ UNCHANGED outcome
  /\ UNCHANGED <<config, unit, invocations, guard, calls, output>>

\* The clock read at the start of the last run instead of line 218.
ElapsedOfLastRun(f, end_time) == end_time - f.loop_start

\* lines 225-226: real_time = end_time - start_time, with start_time of line 218
Elapsed(f, end_time) == end_time - f.fe_start

\* lines 227-229 and line 105
UpdateTimes(t) ==
  /\ At(t, "wrapper", "update")
  /\ frames' = SetTop(t, [Top(t) EXCEPT
         !.real_time = Elapsed(Top(t), perf_counter[t]),
         !.total_times = update_total_times(@, time_wasted[ProcOf(t)]),
         !.pc = "pop"])
  /\ UNCHANGED <<config, unit, invocations, guard, perf_counter, calls, outcome, path, output, pool>>

\* line 107
PopTopLevel(t) ==
  /\ At(t, "wrapper", "pop")
  /\ UNCHANGED <<config, unit, invocations, is_recursive, time_wasted, time_wasted_lock, wasted_added,
                 calls, path, output>>
  /\ IF Stack(t) = <<>>
       THEN /\ RaiseIn(t, "IndexError")
            /\ UNCHANGED potential_recursion_func_stack
       ELSE /\ potential_recursion_func_stack' =
                 [potential_recursion_func_stack EXCEPT ![ProcOf(t)] = Popped(@)]
            /\ frames' = SetTop(t, [Top(t) EXCEPT !.pc = "report"])
            /\ UNCHANGED <<perf_counter, outcome, pool>>

\* The single-value form for run_times = 1 only.
ReportFormOfOne(rt) == IF rt = 1 THEN "single" ELSE "several"

\* print_tempit_values, utils.py lines 29-36: which form is printed
ReportForm(rt) == IF rt <= 1 THEN "single" ELSE "several"

\* statistics.stdev (utils.py line 95) needs two samples
StatisticsFail(form, v, total_times) ==
  form = "several" /\ v /\ Len(total_times) < 2

\* lines 108-119
Report(t) ==
  /\ At(t, "wrapper", "report")
  /\ UNCHANGED <<config, unit, invocations, guard, calls, path>>
  /\ LET f == Top(t)
         form == ReportForm(f.run_times_final)
     IN  IF Stack(t) # <<>>
           THEN /\ ReturnFrom(t, f.result)
                /\ UNCHANGED output
         ELSE IF (form = "single" /\ f.total_times = <<>>)
                 \/ StatisticsFail(form, verbose, f.total_times)
           THEN /\ RaiseIn(t, "ReportError")
                /\ UNCHANGED output
           ELSE /\ ReturnFrom(t, f.result)
                /\ last_report' = [form |-> form, total_times |-> f.total_times,
                                   real_time |-> f.real_time, verbose |-> verbose,
                                   run_times |-> f.run_times_final]
                /\ IF f.outer
                     THEN /\ reported' = [reported EXCEPT ![t] = @ + 1]
                          /\ UNCHANGED nested_reports
                     ELSE /\ nested_reports' = nested_reports + 1
                          /\ UNCHANGED reported

\* ------------------------------------------------------------- the target
\* The body of the user's function, run by thread t.
TargetRaises(t, n) ==
  \/ behaviour = "raises"
  \/ behaviour = "raises_later" /\ invocations[ProcOf(t)] >= 1
  \/ behaviour = "crash_in_worker" /\ t # MainThread

\* The target calls the decorated name, which is tempit_wrapper.
TargetReenters(n) == behaviour = "recursive" /\ n >= 1 /\ Instrumented

TargetBody(t) ==
  /\ At(t, "target", "body")
  /\ LET n == Top(t).n
     IN  IF TargetReenters(n)
           \* the decorated name is called: tempit_wrapper is entered, line 83
           THEN /\ frames' = PushFrame(t, [Top(t) EXCEPT !.pc = "wait"],
                                       WrapperFrame(t, n - 1, FALSE, perf_counter[t]))
                /\ UNCHANGED <<perf_counter, outcome, pool>>
         ELSE IF TargetRaises(t, n)
           THEN /\ perf_counter' = [perf_counter EXCEPT ![t] = @ + TargetTicks]
                /\ RaiseWith(t, "TargetException", pool)
           ELSE TargetReturn(t, SubSeq(frames[t], 1, Depth(t) - 1),
                             TargetResult(behaviour, n, invocations[ProcOf(t)]),
                             perf_counter[t]
                               + TargetTime(behaviour, invocations[ProcOf(t)]))
  /\ invocations' = [invocations EXCEPT ![ProcOf(t)] = @ + 1]
  /\ UNCHANGED <<config, unit, guard, calls, path, output>>

\* ------------------------------------------------------- specifications
Keywords ==
  [run_times : -1..MaxRequested, concurrent_execution : BOOLEAN, verbose : BOOLEAN]

Configurations ==
  /\ ACTIVE \in BOOLEAN
  /\ ACTIVE_now = ACTIVE
  /\ decoration \in Decorations
  /\ entity \in Entities
  /\ keywords \in Keywords
  \* the bare form is tempit(f): no keyword is given
  /\ decoration = "@tempit" => keywords = Defaults
  /\ run_times = DecoratorArguments(decoration, keywords).run_times
  /\ concurrent_execution = DecoratorArguments(decoration, keywords).concurrent_execution
  /\ verbose = DecoratorArguments(decoration, keywords).verbose
  /\ behaviour \in Behaviours
  /\ behaviour = "recursive" => run_times <= MaxRunTimes
  /\ arg \in 0..MaxDepth
  /\ num_cores \in 1..MaxCores
  /\ picklable \in BOOLEAN
  /\ entity = "class" => behaviour \in {"returns", "raises"}
  /\ behaviour \in {"raises_later", "counter"} => arg = 0
  \* verbose is read by the report only: it is varied for the targets that
  \* return without re-entering
  /\ behaviour # "returns" => ~keywords.verbose

\* No function of the package is called directly.
NoUnit == [f |-> "", a |-> <<>>, r |-> <<>>, done |-> FALSE]

Decorated ==
  \* core.py lines 74-77, in every process that imports the module
  /\ potential_recursion_func_stack = [p \in Procs |-> <<>>]
  /\ is_recursive = [p \in Procs |-> FALSE]
  /\ time_wasted_lock = [p \in Procs |-> NoThread]
  /\ time_wasted = [p \in Procs |-> 0]
  /\ wasted_added = [p \in Procs |-> 0]
  /\ perf_counter = [t \in Threads |-> 0]
  /\ frames = [t \in Threads |-> <<>>]
  /\ calls = [t \in CallerThreads |-> 0]
  /\ outcome = [t \in CallerThreads |-> [status |-> "none", value |-> NoValue]]
  /\ reported = [t \in CallerThreads |-> 0]
  /\ path = [t \in CallerThreads |-> {}]
  /\ nested_reports = 0
  /\ last_report = [form |-> "none", total_times |-> <<>>, real_time |-> 0,
                    verbose |-> FALSE, run_times |-> 0]
  /\ pool = [p \in Procs |-> NoPool]
  /\ invocations = [p \in Procs |-> 0]

Step(t) ==
  \/ Call(t)
  \/ CheckTop(t)
  \/ PushRecursive(t)
  \/ PushTopLevel(t)
  \/ StoreClassification(t)
  \/ Branch(t)
  \/ AcquireLock(t)
  \/ WriteWasted(t)
  \/ PopRecursive(t)
  \/ FunctionExecution(t)
  \/ RunSequential(t)
  \/ UpdateTimes(t)
  \/ PopTopLevel(t)
  \/ Report(t)
  \/ TargetBody(t)

\* The steps of run_func_concurrency in the thread that called it.
PoolStep(t) ==
  \/ PrepareConcurrency(t)
  \/ Dispatch(t)
  \/ Collect(t)

\* One thread calls the decorated callable, any number of times in a row.
\* num_cores and picklable are read only by a concurrent batch.
Init ==
  /\ Configurations
  /\ decoration \in {"@tempit", "@tempit(...)"}
  /\ (~concurrent_execution \/ run_times <= 1 \/ ~ACTIVE \/ entity = "class")
       => (num_cores = 1 /\ picklable)
  /\ callers \in {{MainThread}, {OtherThread}}
  /\ callers = {OtherThread} => picklable
  /\ unit = NoUnit
  /\ Decorated

Next ==
  \/ \E t \in Threads : Step(t)
  \/ \E t \in Threads : PoolStep(t)
  \/ \E p \in Procs : \E k \in 1..MaxWorkers : StartThreadReplica(p, k)
  \/ \E k \in 1..MaxWorkers : StartProcessReplica(k)

Spec == Init /\ [][Next]_vars

\* Two threads call the same decorated callable at the same time; the runs of
\* a batch are sequential.
InitThreads ==
  /\ Configurations
  /\ ACTIVE = TRUE /\ decoration = "@tempit(...)" /\ entity = "function"
  /\ run_times >= 1 /\ run_times <= MaxRunTimes
  \* without a pool no replica runs in a worker, and the order of the
  \* durations is a matter of one thread
  /\ behaviour \notin {"crash_in_worker", "counter"}
  \* the target that re-enters is run once per call here: its loop is a
  \* matter of one thread
  /\ behaviour = "recursive" => run_times = 1
  /\ concurrent_execution = FALSE
  /\ num_cores = 1
  /\ picklable = TRUE
  /\ callers = CallerThreads
  /\ unit = NoUnit
  /\ Decorated

NextThreads == \E t \in CallerThreads : Step(t)

\* tests/test_tempit_deactivated.py line 8: the program assigns
\* TempitConfig.ACTIVE, here after the decorations have been made.
SetActive(b) ==
  /\ ACTIVE_now # b
  /\ ACTIVE_now' = b
  /\ UNCHANGED <<settings, guard, perf_counter, frames, calls, outcome, path, output,
                 pool, unit, invocations>>

\* The main thread calls a function decorated in any of the three forms, and
\* the program changes the flag at any time.
InitDecorate ==
  /\ Configurations
  /\ entity = "function"
  /\ behaviour \in {"returns", "recursive"}
  /\ decoration = "tempit(f, ...)" => keywords.run_times >= 1
  /\ num_cores = MaxCores
  /\ (~concurrent_execution \/ run_times <= 1 \/ ~ACTIVE) => picklable
  /\ callers = {MainThread}
  /\ unit = NoUnit
  /\ Decorated

NextDecorate == Next \/ \E b \in BOOLEAN : SetActive(b)

SpecDecorate == InitDecorate /\ [][NextDecorate]_vars

SpecThreads == InitThreads /\ [][NextThreads]_vars

\* ------------------------------------------------------- direct calls
\* The functions of the package called directly with arguments of bounded
\* size; the decorated callable is not called.
Durations == {Frac(d, 1) : d \in 0..MaxDuration}
DurationLists == UNION {[1..k -> Durations] : k \in 1..MaxSamples}

UnitCall(f, a) == [f |-> f, a |-> a, r |-> <<>>, done |-> FALSE]

UnitCalls ==
  {UnitCall("update_total_times", <<tt, tw>>) : tt \in DurationLists, tw \in 0..MaxWasted}
  \cup {UnitCall("adjust_run_times_for_parallelism", <<rt, cores>>) :
           rt \in (0 - MaxRequested)..(MaxCores + 1), cores \in 0..MaxCores}

\* core.py lines 130-143 applied to the arguments
CallUpdateTotalTimes ==
  /\ unit.f = "update_total_times" /\ ~unit.done
  /\ unit' = [unit EXCEPT !.r = update_total_times(unit.a[1], unit.a[2]), !.done = TRUE]
  /\ UNCHANGED <<config, invocations, guard, perf_counter, frames, calls, outcome,
                 path, output, pool>>

\* adjust_run_times_for_parallelism(run_times=...) with cpu_count() returning
\* unit.a[2], called on the argument and then on its own result.
CallAdjustRunTimes ==
  /\ unit.f = "adjust_run_times_for_parallelism" /\ ~unit.done
  /\ unit' = [unit EXCEPT
       !.r = Append(@, adjust_run_times_for_parallelism(
                         IF unit.r = <<>> THEN unit.a[1] ELSE unit.r[Len(unit.r)],
                         unit.a[2])),
       !.done = Len(unit.r) = 1]
  /\ UNCHANGED <<config, invocations, guard, perf_counter, frames, calls, outcome,
                 path, output, pool>>

\* ------------------------------------------------ methods and their calls
\* What @tempit is put on: a plain function, a function defined in a class, a
\* classmethod object or a staticmethod object (examples.py lines 57-69).
Kinds == {"function", "method", "classmethod", "staticmethod"}

\* The values a caller passes: an integer, an instance of the class that owns
\* the decorated name, and that class.
Values == {"1", "instance", "Class"}

\* No object exposes the name.
NoAttr(v) == FALSE

\* hasattr(v, func.__name__), line 187
HasAttr(v) == v \in {"instance", "Class"}

\* v.__class__, line 192
ClassOf(v) ==
  IF v = "instance" THEN "Class" ELSE IF v = "Class" THEN "type" ELSE "int"

\* How the name can be reached: on an instance, on the class, or as a name of
\* the module.
Vias(kind) ==
  IF kind = "function" THEN {"module"}
  ELSE IF kind = "method" THEN {"instance"}
  ELSE {"instance", "class"}

\* The positional arguments tempit_wrapper gets (line 80). tempit_wrapper is
\* a plain function: reached on an instance it is bound and gets the instance
\* first; reached on the class or in the module it gets the explicit
\* arguments only.
Bind(via, explicit) == IF via = "instance" THEN <<"instance">> \o explicit ELSE explicit

\* extract_callable_and_args_if_method, lines 185-197
extract_callable_and_args_if_method(kind, args) ==
  LET is_method == IF args # <<>> THEN HasAttr(args[1]) ELSE FALSE
  IN  [callable_func |-> IF is_method /\ kind = "classmethod" THEN "func.__func__"
                         ELSE "func",
       args |-> IF is_method /\ kind = "classmethod"
                  THEN <<ClassOf(args[1])>> \o Tail(args)
                ELSE IF is_method /\ kind = "staticmethod"
                  THEN Tail(args)
                ELSE args,
       args_to_print |-> IF is_method THEN Tail(args) ELSE args]

\* line 245 or 264, func(*args, **kwargs): what the function the user wrote
\* receives. A classmethod object is not callable; a staticmethod object
\* passes its arguments on.
Received(kind, e) ==
  IF kind = "classmethod" /\ e.callable_func = "func"
    THEN <<"TypeError">>
    ELSE e.args

ExplicitArgs == UNION {[1..k -> Values] : k \in 0..MaxArgs}

MethodCalls ==
  {UnitCall("extract_callable_and_args_if_method", <<kind, via, explicit>>) :
     kind \in Kinds, via \in {"module", "instance", "class"}, explicit \in ExplicitArgs}

\* A call of the decorated name as far as the call of the target.
CallExtract ==
  /\ unit.f = "extract_callable_and_args_if_method" /\ ~unit.done
  /\ LET e == extract_callable_and_args_if_method(unit.a[1], Bind(unit.a[2], unit.a[3]))
     IN  unit' = [unit EXCEPT
           !.r = <<[callable_func |-> e.callable_func,
                    args |-> e.args,
                    args_to_print |-> e.args_to_print,
                    received |-> Received(unit.a[1], e)]>>,
           !.done = TRUE]
  /\ UNCHANGED <<config, invocations, guard, perf_counter, frames, calls, outcome,
                 path, output, pool>>

\* ------------------------------------------------------------ format_time
\* A duration is <<s, us>>: whole seconds and the microseconds of the second
\* begun, so that a day fits in 32-bit integers.
\* The comparison that puts a threshold in the lower tier.
AtMost(t, th) == t[1] < th[1] \/ (t[1] = th[1] /\ t[2] <= th[2])

\* utils.py lines 118, 121, 123, 125, 127, 133: total_time < threshold
Below(t, th) == t[1] < th[1] \/ (t[1] = th[1] /\ t[2] < th[2])

\* The format specs :02.0f and :.0f: the nearest integer to n / d, ties to even.
RoundHalfEven(n, d) ==
  LET q == n \div d
      r == n % d
  IN  IF 2 * r < d THEN q
      ELSE IF 2 * r > d THEN q + 1
      ELSE IF q % 2 = 0 THEN q ELSE q + 1

\* lines 128-131, 136-139 and 144-147: the fields after the days and hours
\* have been taken off; s is what is left of total_time in whole seconds.
MinuteFields(s, us) ==
  [minutes |-> s \div 60,
   seconds |-> RoundHalfEven((s % 60) * 1000000 + us, 1000000),
   ms |-> RoundHalfEven(us, 1000)]

\* format_time, utils.py lines 118-147: the tier, the number of decimals of
\* the first four tiers, and the fields of the last three (the digits of the
\* first four tiers, which depend on the binary value of the float, are left
\* out).
format_time(t) ==
  LET s == t[1]
      us == t[2]
      none == [tier |-> "", decimals |-> 0, days |-> 0, hours |-> 0, minutes |-> 0,
               seconds |-> 0, ms |-> 0]
  IN  IF Below(t, <<0, 1000>>) THEN [none EXCEPT !.tier = "microseconds", !.decimals = 4]
      ELSE IF Below(t, <<0, 100000>>) THEN [none EXCEPT !.tier = "milliseconds", !.decimals = 4]
      ELSE IF Below(t, <<1, 0>>) THEN [none EXCEPT !.tier = "sub-second", !.decimals = 3]
      ELSE IF Below(t, <<60, 0>>) THEN [none EXCEPT !.tier = "seconds", !.decimals = 2]
      ELSE IF Below(t, <<3600, 0>>)
        THEN LET f == MinuteFields(s, us)
             IN  [none EXCEPT !.tier = "minutes", !.minutes = f.minutes,
                              !.seconds = f.seconds, !.ms = f.ms]
      ELSE IF Below(t, <<86400, 0>>)
        THEN LET f == MinuteFields(s % 3600, us)
             IN  [none EXCEPT !.tier = "hours", !.hours = s \div 3600,
                              !.minutes = f.minutes, !.seconds = f.seconds, !.ms = f.ms]
      ELSE LET f == MinuteFields((s % 86400) % 3600, us)
           IN  [none EXCEPT !.tier = "days", !.days = s \div 86400,
                            !.hours = (s % 86400) \div 3600,
                            !.minutes = f.minutes, !.seconds = f.seconds, !.ms = f.ms]

\* The thresholds of the tiers, and the durations at most MaxOffset
\* microseconds away from one of them or from 0.
Thresholds == {<<0, 1000>>, <<0, 100000>>, <<1, 0>>, <<60, 0>>, <<3600, 0>>, <<86400, 0>>}
Shift(th, d) ==
  IF th[2] + d < 0 THEN <<th[1] - 1, th[2] + d + 1000000>> ELSE <<th[1], th[2] + d>>
NearThresholds ==
  {Shift(th, d) : th \in Thresholds, d \in (0 - MaxOffset)..MaxOffset}
    \cup {<<0, d>> : d \in 0..MaxOffset}

\* Durations of a minute and more in whole milliseconds (test_utils.py lines
\* 20-27 use 65.4321, 3665.4321 and 86465.4321).
LongSeconds == {60, 65, 119, 3599, 3665, 7199, 86399, 86465, 90061}
Millis == {0, 432, 500, 600, 999}
LongTimes == {<<s, ms * 1000>> : s \in LongSeconds, ms \in Millis}

FormatCalls == {UnitCall("format_time", <<t>>) : t \in NearThresholds \cup LongTimes}

CallFormatTime ==
  /\ unit.f = "format_time" /\ ~unit.done
  /\ unit' = [unit EXCEPT !.r = <<format_time(unit.a[1])>>, !.done = TRUE]
  /\ UNCHANGED <<config, invocations, guard, perf_counter, frames, calls, outcome,
                 path, output, pool>>

InitUnit ==
  /\ unit \in UnitCalls \cup {c \in MethodCalls : c.a[2] \in Vias(c.a[1])} \cup FormatCalls
  /\ ACTIVE = TRUE /\ ACTIVE_now = TRUE
  /\ decoration = "@tempit" /\ keywords = Defaults /\ entity = "function"
  /\ run_times = 1 /\ concurrent_execution = FALSE /\ verbose = FALSE
  /\ behaviour = "returns" /\ arg = 0 /\ num_cores = 1 /\ picklable = TRUE
  /\ callers = {}
  /\ Decorated

NextUnit ==
  \/ CallUpdateTotalTimes
  \/ CallAdjustRunTimes
  \/ CallExtract
  \/ CallFormatTime

SpecUnit == InitUnit /\ [][NextUnit]_vars

\* ------------------------------------------------------------ properties
\* A call of the decorated callable is in flight in process p.
InFlight(p) == \E t \in Threads : ProcOf(t) = p /\ frames[t] # <<>>

\* The activations of tempit_wrapper on the stack of thread t.
WrapperFrames(t) == {k \in 1..Depth(t) : frames[t][k].fn = "wrapper"}

\* The positions of tempit_wrapper before line 84 has returned.
Classifying == {"check_top", "push_rec", "push_top"}
\* The positions of tempit_wrapper on the path of lines 89-95.
RecursivePath == {"store", "branch", "lock", "tw_write", "rec_wait", "rec_pop"}

Ended(t) == outcome[t].status \in {"returned", "raised"}

C2_StackEmptyWhenIdle ==
  \A p \in Procs : ~InFlight(p) => potential_recursion_func_stack[p] = <<>>

\* C3: once the concurrent attempt of a call has failed, the failure stays
\* inside the call: the caller never sees the backend's RuntimeError, the
\* sequential loop has been run by the time the call ends, and a call that
\* returns hands back the loop's result.
C3_FallbackToSequential ==
  \A t \in CallerThreads :
    "concurrent_failed" \in path[t] =>
      /\ outcome[t].status = "raised" => outcome[t].value # "RuntimeError"
      /\ Ended(t) => "sequential" \in path[t]
      /\ (outcome[t].status = "returned" /\ behaviour # "counter")
           => outcome[t].value = Undecorated(behaviour, arg)

\* A call has returned after the replicas of its batch raised in the workers.
C3_Witness ==
  /\ behaviour = "crash_in_worker"
  /\ outcome[MainThread].status = "returned"
  /\ {"concurrent_failed", "sequential"} \subseteq path[MainThread]

\* C4: when the target raises on every invocation, no call returns: it ends
\* with the target's own exception, on every strategy, and prints no report.
C4_TargetExceptionPropagates ==
  behaviour = "raises" =>
    /\ \A t \in CallerThreads :
         /\ outcome[t].status # "returned"
         /\ outcome[t].status = "raised" => outcome[t].value = "TargetException"
         /\ reported[t] = 0
    /\ nested_reports = 0

\* A call has ended with the target's exception raised by the sequential loop
\* that followed a batch whose replicas all raised.
C4_Witness ==
  /\ behaviour = "raises"
  /\ \E t \in CallerThreads :
       /\ outcome[t].status = "raised"
       /\ outcome[t].value = "TargetException"
       /\ {"concurrent_failed", "sequential"} \subseteq path[t]
       /\ num_cores > 2

\* C5: a call that check_is_recursive_func has classified as recursive stays
\* on the path of lines 89-95: it never runs function_execution, never pops at
\* line 107 and never reaches the report.
C5_RecursiveCallRunsTargetOnce ==
  \A t \in Threads : \A k \in WrapperFrames(t) :
    frames[t][k].ret[3] => frames[t][k].pc \in RecursivePath

\* C6: while a call with run_times > 1 is in flight, every call that the
\* target makes of the decorated name is classified as recursive, in the
\* sequential loop, in thread workers and in process workers, and none of
\* them prints a report.
C6_ReentrantCallsRecursive ==
  run_times > 1 =>
    /\ \A t \in Threads : \A k \in WrapperFrames(t) :
         (~frames[t][k].outer /\ frames[t][k].pc \notin Classifying)
           => frames[t][k].ret[3]
    /\ nested_reports = 0

\* C7: a call from outside that has returned has printed exactly one report,
\* and the calls made by the target have printed none.
C7_OneReportPerCall ==
  /\ \A t \in CallerThreads : outcome[t].status = "returned" => reported[t] = 1
  /\ nested_reports = 0

\* C8: a thread that is about to test the top of the stack, to push or to pop
\* holds the lock of the guard.
C8_StackUnderLock ==
  \A t \in Threads :
    (Depth(t) > 0 /\ Top(t).fn = "wrapper"
       /\ Top(t).pc \in {"check_top", "push_rec", "push_top", "rec_pop", "pop"})
      => time_wasted_lock[ProcOf(t)] = t

\* C9: time_wasted is the sum of all the increments executed so far: no
\* increment of line 92 is lost, however the threads interleave.
C9_NoIncrementLost ==
  \A p \in Procs : time_wasted[p] = wasted_added[p]

\* Two workers of a thread pool are inside recursive invocations at the same
\* time and both have added their increment.
C9_Witness ==
  \E t1, t2 \in WorkerThreads :
    /\ t1 # t2 /\ ProcOf(t1) = MainProcess /\ ProcOf(t2) = MainProcess
    /\ \E k \in WrapperFrames(t1) : frames[t1][k].pc = "rec_wait"
    /\ \E k \in WrapperFrames(t2) : frames[t2][k].pc = "rec_wait"
    /\ time_wasted[MainProcess] = 2 * GuardTicks

\* C10: a thread that is executing the code of the target (the activation
\* it is running is the target's) does not hold the lock of the guard: the
\* holder of the lock is always a wrapper between lines 90 and 92.
C10_LockFreeWhileTargetRuns ==
  \A t \in Threads :
    time_wasted_lock[ProcOf(t)] = t => At(t, "wrapper", "tw_write")

\* A thread runs the target called from line 93 while another thread holds
\* the lock.
C10_Witness ==
  \E t1, t2 \in Threads :
    /\ t1 # t2 /\ ProcOf(t1) = ProcOf(t2)
    /\ At(t1, "target", "body") /\ Depth(t1) > 1
    /\ frames[t1][Depth(t1) - 1].pc = "rec_wait"
    /\ time_wasted_lock[ProcOf(t2)] = t2

\* C11: update_total_times keeps the length of the list and turns every
\* measured duration x into max(x - time_wasted / len, 0): never negative,
\* never more than x, for every time_wasted >= 0 and every non-empty list.
C11_CorrectedDurations ==
  (unit.f = "update_total_times" /\ unit.done) =>
    LET tt == unit.a[1]
        tw == unit.a[2]
        n  == Len(tt)
    IN  /\ Len(unit.r) = n
        /\ \A k \in 1..n :
             LET x == tt[k]
                 y == unit.r[k]
             IN  /\ y[2] > 0
                 /\ y[1] >= 0
                 /\ ~FracLess(x, y)
                 /\ IF x[1] * n >= tw * x[2]
                      THEN y[1] * (x[2] * n) = (x[1] * n - tw * x[2]) * y[2]
                      ELSE y[1] = 0

\* A list of two durations has been corrected: one is floored at zero, the
\* other is reduced and stays positive.
C11_Witness ==
  /\ unit.f = "update_total_times" /\ unit.done
  /\ unit.a[2] > 0 /\ Len(unit.a[1]) = 2
  /\ unit.r[1][1] = 0 /\ unit.a[1][1][1] > 0
  /\ unit.r[2][1] > 0 /\ FracLess(unit.r[2], unit.a[1][2])

\* C12: with a configured run_times <= 0 a top-level call runs a loop of
\* exactly one iteration: it invokes the target once, has one duration sample
\* when the loop is over, starts no batch and reports one sample.
C12_NonPositiveRunsOnce ==
  run_times <= 0 =>
    /\ \A t \in Threads : \A k \in WrapperFrames(t) :
         LET f == frames[t][k]
         IN  /\ f.pc \in {"seq_loop", "seq_wait"} => (f.run_times = 1 /\ f.i = 0)
             /\ f.pc \in {"update", "pop", "report"} =>
                  (f.i = 1 /\ Len(f.total_times) = 1)
             /\ f.pc \notin {"concurrency", "dispatch", "parallel"}
    /\ \A t \in CallerThreads :
         outcome[t].status = "raised" => outcome[t].value # "UnboundLocalError"
    /\ last_report.form # "none" => Len(last_report.total_times) = 1

\* A call configured with run_times = -1 and concurrent execution has
\* returned and reported its single sample.
C12_Witness ==
  /\ run_times = 0 - 1 /\ concurrent_execution
  /\ \E t \in CallerThreads :
       /\ outcome[t].status = "returned" /\ reported[t] = 1
       /\ path[t] = {"sequential"}
  /\ Len(last_report.total_times) = 1

\* C13: a printed report has the single-value form exactly when the
\* configured run_times is <= 1 and the aggregate form exactly when it is > 1,
\* whatever produced the durations; the aggregate form has at least two.
C13_ReportForm ==
  last_report.form # "none" =>
    /\ last_report.form = "single" <=> run_times <= 1
    /\ last_report.form = "several" <=> run_times > 1
    /\ last_report.form = "single" => Len(last_report.total_times) = 1
    /\ last_report.form = "several" => Len(last_report.total_times) >= 2

\* The aggregate form has been printed for a concurrent batch whose replica
\* count was reduced below the configured run_times.
C13_Witness ==
  /\ last_report.form = "several"
  /\ Len(last_report.total_times) < run_times
  /\ \E t \in CallerThreads : "concurrent" \in path[t] /\ reported[t] = 1

\* The calls made so far went straight to the original callable: each ran it
\* once in the caller's thread, and nothing of tempit has acted.
StraightCalls ==
  /\ \A t \in Threads : WrapperFrames(t) = {}
  /\ \A t \in WorkerThreads \cup {LokyMain} : frames[t] = <<>>
  /\ \A p \in Procs :
       /\ potential_recursion_func_stack[p] = <<>>
       /\ time_wasted[p] = 0
       /\ time_wasted_lock[p] = NoThread
       /\ pool[p] = NoPool
  /\ invocations[LokyProcess] = 0
  /\ invocations[MainProcess] =
       calls[MainThread] + calls[OtherThread]
         - Cardinality({t \in CallerThreads : At(t, "target", "body")})
  /\ last_report.form = "none"
  /\ nested_reports = 0
  /\ \A t \in CallerThreads :
       /\ reported[t] = 0
       /\ path[t] = {}
       /\ (outcome[t].status = "returned" /\ behaviour # "counter")
           => outcome[t].value = Undecorated(behaviour, arg)

\* C14: when TempitConfig.ACTIVE is false at decoration time, @tempit and
\* @tempit(...) both bind the name to the original callable: a call runs the
\* target once, touches no guard state, starts no batch and prints no report.
C14_InactiveReturnsOriginal == ~ACTIVE => StraightCalls

\* A call of a function decorated with @tempit(run_times > 1,
\* concurrent_execution=True) while ACTIVE was false has returned.
C14_Witness ==
  /\ ~ACTIVE /\ entity = "function" /\ decoration = "@tempit(...)"
  /\ run_times > 1 /\ concurrent_execution
  /\ \E t \in CallerThreads : outcome[t].status = "returned" /\ frames[t] = <<>>
  /\ invocations[MainProcess] = 1

\* C15: decorating a class, bare or called, binds the name to the class
\* itself: constructing it is not instrumented, touches no guard state and
\* prints no report.
C15_ClassReturnedUnchanged == entity = "class" => StraightCalls

\* An instance of a class decorated while ACTIVE was true has been constructed.
C15_Witness ==
  /\ entity = "class" /\ ACTIVE /\ run_times > 1
  /\ \E t \in CallerThreads : outcome[t].status = "returned" /\ frames[t] = <<>>
  /\ invocations[MainProcess] = 1

\* A first call that went through the sequential loop only has ended, of a
\* target whose run failed after an earlier run of the batch had returned.
LaterRunFailed(t) ==
  /\ Instrumented
  /\ behaviour = "raises_later"
  /\ run_times >= 2
  /\ calls[t] = 1
  /\ path[t] = {"sequential"}
  /\ Ended(t)

\* C16 as stated: when a run of the sequential loop raises after an earlier
\* run of the batch has returned, the call still returns, with the result of
\* the run that returned.
C16_LoopSurvivesLaterFailure ==
  \A t \in CallerThreads :
    LaterRunFailed(t) =>
      /\ outcome[t].status = "returned"
      /\ outcome[t].value = Undecorated(behaviour, arg)

\* C16: an exception raised by a run of the sequential loop propagates to the
\* caller at once, also after earlier runs of the batch have returned: the
\* remaining iterations are not run, nothing is returned and no report is
\* printed.
C16_LoopHasNoHandler ==
  \A t \in CallerThreads :
    LaterRunFailed(t) =>
      /\ outcome[t].status = "raised"
      /\ outcome[t].value = "TargetException"
      /\ invocations[MainProcess] = 2
      /\ reported[t] = 0
      /\ last_report.form = "none"

\* The second of three runs has raised: the call has ended with the
\* exception after two activations of the target.
C16_Witness ==
  \E t \in CallerThreads :
    /\ LaterRunFailed(t)
    /\ run_times = 3
    /\ outcome[t].status = "raised"
    /\ invocations[MainProcess] = 2

\* C17: a call with run_times > 1 that returns hands back the result of the
\* first run of its batch, also when the results differ from run to run
\* (checked where the first run is known: first calls that did not get their
\* result from a pool).
C17_ReturnsFirstRun ==
  \A t \in CallerThreads :
    ( /\ Instrumented
      /\ run_times > 1
      /\ calls[t] = 1
      /\ "sequential" \in path[t]
      /\ outcome[t].status = "returned" )
    => outcome[t].value = TargetResult(behaviour, arg, 0)

\* C18: the concurrent runner reduces a run count larger than the worker
\* budget to the budget before it dispatches anything: a batch has between two
\* replicas and the budget, never more than were asked for. When the count
\* comes out as 1, nothing is dispatched, the RuntimeError is raised and the
\* sequential loop is run with the run count that was asked for.
C18_ReducedBeforeDispatch ==
  LET budget == IF num_cores - 1 > 1 THEN num_cores - 1 ELSE 1
  IN  \A t \in Threads : \A k \in WrapperFrames(t) :
        LET f == frames[t][k]
        IN  /\ f.pc \in {"dispatch", "parallel"} =>
                 /\ f.replicas >= 2
                 /\ f.replicas <= budget
                 /\ f.replicas = IF f.run_times > budget THEN budget ELSE f.run_times
            /\ f.pc = "parallel" => Len(pool[ProcOf(t)].rep) = f.replicas
            /\ budget = 1 =>
                 /\ f.pc \notin {"dispatch", "parallel"}
                 /\ f.attempts = 0
                 /\ pool[ProcOf(t)] = NoPool
            /\ (f.fallback /\ f.attempts = 0) =>
                 /\ budget = 1
                 /\ f.pc \in {"seq_loop", "seq_wait", "update", "pop", "report"}
                 /\ Len(f.total_times) <= f.run_times
                 /\ f.pc \in {"update", "pop", "report"} => Len(f.total_times) = f.run_times
                 /\ f.outer => "concurrent_failed" \in path[t]

\* Three runs were asked for on a machine with a budget of one worker: the
\* count came out as 1, no replica was dispatched, and the call has returned
\* from the sequential loop with three durations.
C18_Witness ==
  /\ num_cores = 2 /\ run_times = 3 /\ concurrent_execution
  /\ \A p \in Procs : pool[p] = NoPool
  /\ \E t \in CallerThreads :
       /\ outcome[t].status = "returned"
       /\ calls[t] = 1
       /\ path[t] = {"concurrent_failed", "sequential"}
       /\ reported[t] = 1
  /\ Len(last_report.total_times) = 3

\* adjust_run_times_for_parallelism has returned for a request of at least
\* as many runs as the machine has cores: what it returned is the budget.
BudgetAsked ==
  /\ unit.f = "adjust_run_times_for_parallelism"
  /\ unit.r # <<>>
  /\ unit.a[2] >= 1
  /\ unit.a[1] >= unit.a[2]

C20_AdjustRunTimes ==
  (unit.f = "adjust_run_times_for_parallelism" /\ unit.r # <<>>) =>
    LET rt == unit.a[1]
        cores == unit.a[2]
        budget == IF cores - 1 > 1 THEN cores - 1 ELSE 1
        res == unit.r[1]
    IN  /\ (cores >= 1 /\ 1 <= rt /\ rt <= budget) => res = rt
        /\ (cores >= 1 /\ rt > budget) => res = budget
        /\ (cores = 0 /\ rt >= 1) => res = rt
        /\ rt <= 1 => res = 1
        /\ res >= 1
        /\ res <= (IF rt > 1 THEN rt ELSE 1)
        /\ Len(unit.r) = 2 => unit.r[2] = res

\* The function has been applied to a negative argument and to its result.
C20_Witness ==
  /\ unit.f = "adjust_run_times_for_parallelism"
  /\ unit.a[1] < 0 /\ unit.a[2] = MaxCores
  /\ unit.done
  /\ unit.r = <<1, 1>>

\* The activation f got its durations from a batch that succeeded.
FromBatch(f) == f.attempts >= 1 /\ ~f.fallback /\ f.pc \in {"update", "pop", "report"}

\* C21: the durations of a successful concurrent batch are one per replica
\* that was run (the adjusted count, at least 2), each equal to the time the
\* pool took divided by that count: they are all equal, and stay so after the
\* correction of update_total_times.
C21_UniformBatchDurations ==
  \A t \in Threads : \A k \in WrapperFrames(t) :
    LET f == frames[t][k]
    IN  FromBatch(f) =>
          /\ f.replicas >= 2
          /\ Len(f.total_times) = f.replicas
          /\ \A j \in 1..Len(f.total_times) : FracEq(f.total_times[j], f.total_times[1])
          /\ f.pc = "update" =>
               \A j \in 1..Len(f.total_times) :
                 FracEq(f.total_times[j],
                        Frac(perf_counter[t] - f.pool_start, f.replicas))

\* run_func_concurrency has just returned two equal, positive durations for
\* a request of three runs.
C21_Witness ==
  \E t \in CallerThreads :
    /\ At(t, "wrapper", "update")
    /\ FromBatch(Top(t))
    /\ Top(t).run_times = 3
    /\ Len(Top(t).total_times) = 2
    /\ Top(t).total_times[1][1] > 0

\* C22: when a replica of a concurrent batch has failed, the attempt ends
\* with the RuntimeError that function_execution catches, and nothing the
\* attempt measured is reported: the durations of the call are those of the
\* iterations of the sequential loop, one per run that was asked for.
C22_FailedBatchDiscarded ==
  \A t \in Threads : \A k \in WrapperFrames(t) :
    LET f == frames[t][k]
    IN  f.fallback =>
          /\ f.pc \in {"seq_loop", "seq_wait", "update", "pop", "report"}
          /\ Len(f.total_times) = f.i
          /\ f.pc \in {"seq_loop", "seq_wait"} =>
               \A j \in 1..Len(f.total_times) : f.total_times[j][2] = 1
          /\ f.pc \in {"update", "pop", "report"} => f.i = f.run_times
          /\ f.outer => ("concurrent_failed" \in path[t] /\ "concurrent" \notin path[t])

\* Two replicas were dispatched for three runs and one of them raised: the
\* call is about to report the three durations of the sequential loop.
C22_Witness ==
  \E t \in CallerThreads :
    /\ At(t, "wrapper", "report")
    /\ Top(t).fallback
    /\ Top(t).attempts >= 1
    /\ Top(t).replicas = 2
    /\ Len(Top(t).total_times) = 3

\* C23: a batch is attempted on processes only by the main thread of the
\* main process; a call made from any other thread or process uses threads
\* from its first attempt, which is then its only one.
C23_ProcessesFromMainOnly ==
  /\ \A p \in Procs :
       pool[p].backend = "loky" => (p = MainProcess /\ pool[p].owner = MainThread)
  /\ \A t \in Threads : \A k \in WrapperFrames(t) :
       LET f == frames[t][k]
       IN  /\ (f.pc \in {"dispatch", "parallel"} /\ f.backend = "loky") => t = MainThread
           /\ (f.pc \in {"dispatch", "parallel"} /\ t # MainThread) =>
                (f.backend = "threading" /\ f.attempts <= 1)
           /\ (f.pc = "dispatch" /\ f.attempts = 0 /\ t = MainThread) => f.backend = "loky"

\* A call made from a thread other than the main thread has its first batch
\* running on threads.
C23_Witness ==
  /\ callers = {OtherThread}
  /\ At(OtherThread, "wrapper", "parallel")
  /\ Top(OtherThread).attempts = 1
  /\ pool[MainProcess].owner = OtherThread
  /\ pool[MainProcess].backend = "threading"
  /\ \E k \in 1..Len(pool[MainProcess].rep) : pool[MainProcess].rep[k].st = "running"

\* C24: a first attempt that fails to pickle the task is followed by exactly
\* one more attempt, on threads and with the same number of replicas, before
\* any fallback; a first attempt that fails otherwise is not repeated: a call
\* makes at most two attempts, and two only after a pickling error.
C24_OneRetryOnThreads ==
  \A t \in Threads : \A k \in WrapperFrames(t) :
    LET f == frames[t][k]
        unpicklable == t = MainThread /\ ~picklable
    IN  /\ f.attempts <= 2
        /\ f.attempts = 2 => (unpicklable /\ f.backend = "threading")
        /\ (f.attempts = 1 /\ f.pc = "dispatch") =>
             /\ unpicklable
             /\ f.backend = "threading"
             /\ f.replicas = adjust_run_times_for_parallelism(f.run_times, num_cores)
        /\ (f.attempts = 1 /\ f.pc # "dispatch") => ~unpicklable
        /\ (f.pc = "parallel" /\ f.attempts = 2) =>
             /\ pool[ProcOf(t)].backend = "threading"
             /\ Len(pool[ProcOf(t)].rep) = f.replicas
        /\ (f.fallback /\ unpicklable /\ f.replicas >= 2) => f.attempts = 2

\* The task could not be pickled, the attempt on threads failed as well, and
\* the call has fallen back to the sequential loop after two attempts.
C24_Witness ==
  /\ ~picklable
  /\ \E k \in WrapperFrames(MainThread) :
       /\ frames[MainThread][k].fallback
       /\ frames[MainThread][k].attempts = 2
       /\ frames[MainThread][k].backend = "threading"

\* C25: statistics.stdev is never called on fewer than two durations: an
\* activation that is about to print the aggregate form, or has printed it,
\* holds at least two durations, whether they come from the sequential
\* loop, from a batch of reduced size or from the fallback; no report fails.
C25_TwoSamplesForStatistics ==
  /\ \A t \in Threads : \A k \in WrapperFrames(t) :
       LET f == frames[t][k]
       IN  (f.pc = "report" /\ ReportForm(f.run_times_final) = "several")
             => Len(f.total_times) >= 2
  /\ last_report.form = "several" => Len(last_report.total_times) >= 2
  /\ \A t \in CallerThreads :
       outcome[t].status = "raised" => outcome[t].value # "ReportError"

\* The verbose aggregate report of a batch of two replicas, reduced from
\* three runs, has been printed.
C25_Witness ==
  /\ verbose /\ run_times = 3
  /\ last_report.form = "several"
  /\ last_report.verbose
  /\ Len(last_report.total_times) = 2
  /\ \E t \in CallerThreads : "concurrent" \in path[t] /\ outcome[t].status = "returned"

\* A call of a decorated name of the given kind has gone through the adapter.
Extracted(kind) ==
  /\ unit.f = "extract_callable_and_args_if_method"
  /\ unit.done
  /\ unit.a[1] = kind

\* C26: for every call of a decorated classmethod the adapter hands on the
\* underlying plain function with the owning class as first argument, the
\* explicit arguments following unchanged, and that is what the method
\* receives.
C26_ClassmethodGetsClass ==
  Extracted("classmethod") =>
    /\ unit.r[1].callable_func = "func.__func__"
    /\ unit.r[1].args = <<"Class">> \o unit.a[3]
    /\ unit.r[1].received = <<"Class">> \o unit.a[3]

\* C27: for every call of a decorated staticmethod, and every value of the
\* first explicit argument, the method receives exactly the explicit
\* arguments of the caller.
C27_StaticmethodGetsExplicitArgs ==
  Extracted("staticmethod") => unit.r[1].received = unit.a[3]

\* C28: the arguments to print are the arguments of the call without the
\* first one when the first one exposes an attribute named like the wrapped
\* function, and the arguments of the call otherwise, an empty list
\* included; for a plain function and for an instance method the callable
\* and the arguments to call it with come back unchanged either way.
C28_DisplayArgs ==
  (unit.f = "extract_callable_and_args_if_method" /\ unit.done) =>
    LET args == Bind(unit.a[2], unit.a[3])
        exposes == IF args = <<>> THEN FALSE ELSE args[1] \in {"instance", "Class"}
    IN  /\ unit.r[1].args_to_print = IF exposes THEN Tail(args) ELSE args
        /\ unit.a[1] \in {"function", "method"} =>
             /\ unit.r[1].callable_func = "func"
             /\ unit.r[1].args = args
             /\ unit.r[1].received = args

\* A plain function has been called with an object exposing its name as
\* first argument: the first argument is not printed, and is passed on.
C28_Witness ==
  /\ Extracted("function")
  /\ unit.a[3] = <<"instance", "1">>
  /\ unit.r[1].args_to_print = <<"1">>
  /\ unit.r[1].args = <<"instance", "1">>

\* format_time has returned for the duration unit.a[1].
Formatted == unit.f = "format_time" /\ unit.done

\* C29: format_time puts every non-negative duration in one tier, by
\* thresholds that belong to the tier above them: microseconds below 0.001 s
\* and milliseconds below 0.1 s with 4 decimals, sub-second below 1 s with 3,
\* seconds below 60 s with 2, minutes below 3600 s, hours below 86400 s, days
\* from there on.
C29_TiersHalfOpen ==
  Formatted =>
    LET s == unit.a[1][1]
        us == unit.a[1][2]
        r == unit.r[1]
    IN  /\ r.tier = "microseconds" <=> (s = 0 /\ us < 1000)
        /\ r.tier = "milliseconds" <=> (s = 0 /\ us >= 1000 /\ us < 100000)
        /\ r.tier = "sub-second" <=> (s = 0 /\ us >= 100000)
        /\ r.tier = "seconds" <=> (s >= 1 /\ s < 60)
        /\ r.tier = "minutes" <=> (s >= 60 /\ s < 3600)
        /\ r.tier = "hours" <=> (s >= 3600 /\ s < 86400)
        /\ r.tier = "days" <=> s >= 86400
        /\ r.tier \in {"microseconds", "milliseconds"} => r.decimals = 4
        /\ r.tier = "sub-second" => r.decimals = 3
        /\ r.tier = "seconds" => r.decimals = 2

\* A duration of exactly 60 s has been formatted in the minutes tier.
C29_Witness ==
  /\ Formatted
  /\ unit.a[1] = <<60, 0>>
  /\ unit.r[1].tier = "minutes"
  /\ unit.r[1].minutes = 1

\* C30: for every duration of 60 s and more in whole milliseconds, the
\* fields printed are days = floor(t / 86400), hours = floor((t mod 86400) /
\* 3600), minutes = floor((t mod 3600) / 60), seconds = floor(t mod 60),
\* within 0..59, and milliseconds = the fraction of the second in ms, within
\* 0..999.
C30_FieldsDecompose ==
  (Formatted /\ unit.a[1][1] >= 60 /\ unit.a[1][2] % 1000 = 0) =>
    LET s == unit.a[1][1]
        us == unit.a[1][2]
        r == unit.r[1]
    IN  /\ r.tier = "days" => r.days = s \div 86400
        /\ r.tier \in {"hours", "days"} => r.hours = (s % 86400) \div 3600
        /\ r.minutes = (s % 3600) \div 60
        /\ r.seconds = s % 60
        /\ r.seconds \in 0..59
        /\ r.ms = us \div 1000
        /\ r.ms \in 0..999

\* The first call of thread t, of a target that does not re-enter, has used
\* the sequential loop only.
FirstSequentialCall(t) ==
  /\ t \in CallerThreads
  /\ calls[t] = 1
  /\ behaviour # "recursive"
  /\ "concurrent_failed" \notin path[t]

\* C31: the sequential loop invokes the target one run after another, each
\* starting when the one before has returned, and appends one duration per
\* run in the order of the runs; a loop that completes has made
\* max(1, run_times) runs and holds as many durations.
C31_SequentialRunsInOrder ==
  \A t \in Threads : \A k \in WrapperFrames(t) :
    LET f == frames[t][k]
    IN  /\ f.pc \in {"seq_loop", "seq_wait"} =>
             /\ Len(f.total_times) = f.i
             /\ f.run_times = (IF f.run_times_final > 1 THEN f.run_times_final ELSE 1)
             /\ (f.outer /\ FirstSequentialCall(t)) =>
                  /\ invocations[MainProcess] = f.i
                  /\ behaviour = "counter" =>
                       \A j \in 1..Len(f.total_times) :
                         f.total_times[j] = Frac(TargetTicks + j - 1, 1)
        /\ f.pc = "seq_loop" => (k = Depth(t) /\ f.i < f.run_times)
        /\ f.pc = "seq_wait" =>
             /\ f.i < f.run_times
             /\ k < Depth(t)
             /\ frames[t][k + 1].fn = "target"
        /\ (f.pc \in {"update", "pop", "report"} /\ ~FromBatch(f)) =>
             /\ f.i = f.run_times
             /\ Len(f.total_times) = f.run_times
             /\ (f.outer /\ FirstSequentialCall(t)) => invocations[MainProcess] = f.run_times

\* Three runs of the counting target have been made in a row: the loop holds
\* their three durations, the shortest first.
C31_Witness ==
  \E t \in CallerThreads :
    /\ At(t, "wrapper", "update")
    /\ FirstSequentialCall(t)
    /\ behaviour = "counter"
    /\ ~concurrent_execution
    /\ Top(t).total_times = <<Frac(TargetTicks, 1), Frac(TargetTicks + 1, 1),
                              Frac(TargetTicks + 2, 1)>>
    /\ invocations[MainProcess] = 3

\* C32: a call that check_is_recursive_func has classified as top-level (it
\* found the stack empty) branches to function_execution at line 89 with the
\* configured run_times: it is never on the path of lines 90-95.
C32_TopLevelCallRunsBatch ==
  \A t \in Threads : \A k \in WrapperFrames(t) :
    LET f == frames[t][k]
    IN  (f.pc \notin Classifying \cup {"store", "branch"} /\ ~f.ret[3]) =>
          /\ f.pc \notin RecursivePath
          /\ f.run_times_final = run_times

\* C33: a thread that has found the stack non-empty at line 165 and is about
\* to read its top element finds an element there: no other thread has
\* emptied the stack in between.
C33_TopReadOfNonEmptyStack ==
  \A t \in Threads : At(t, "wrapper", "check_top") => Stack(t) # <<>>

\* C34: a thread that is about to pop, at line 94 or at line 107, finds at
\* least one element on the stack, whatever the other threads have done and
\* whether or not earlier invocations have raised.
C34_PopOfNonEmptyStack ==
  \A t \in Threads :
    (At(t, "wrapper", "rec_pop") \/ At(t, "wrapper", "pop")) => Stack(t) # <<>>

\* One thread has popped and returned while the other, on the recursive
\* path, is about to pop the last element.
C34_Witness ==
  \E t1, t2 \in CallerThreads :
    /\ t1 # t2
    /\ outcome[t1].status = "returned"
    /\ At(t2, "wrapper", "rec_pop")
    /\ Len(Stack(t2)) = 1

\* A pop is about to be made after an invocation of the same callable has
\* raised and left its element on the stack.
C34_WitnessAfterRaise ==
  \E t1, t2 \in CallerThreads :
    /\ t1 # t2
    /\ outcome[t1].status = "raised"
    /\ At(t2, "wrapper", "pop")
    /\ Len(Stack(t2)) >= 2

\* C35: every element of the guard's stack is the decorated function itself,
\* so the test of line 165 amounts to the stack being non-empty: a call is
\* classified recursive exactly when it found the stack non-empty on entry.
C35_StackHoldsTheEntityOnly ==
  /\ \A p \in Procs : \A i \in 1..Len(potential_recursion_func_stack[p]) :
       potential_recursion_func_stack[p][i] = func
  /\ \A t \in Threads : \A k \in WrapperFrames(t) :
       frames[t][k].pc \notin Classifying =>
         (frames[t][k].ret[3] <=> frames[t][k].non_empty)

\* A call made by the target found the outer call's element on the stack and
\* has been classified recursive; its own element is on the stack too.
C35_Witness ==
  \E t \in Threads : \E k \in WrapperFrames(t) :
    /\ ~frames[t][k].outer
    /\ frames[t][k].non_empty
    /\ frames[t][k].ret[3]
    /\ frames[t][k].pc = "rec_wait"
    /\ Len(Stack(t)) >= 2

\* C36: the accumulator of a decorated callable never goes down: no step
\* lowers time_wasted (a worker process that imports the module anew has an
\* accumulator of its own, which starts at 0), so the value that
\* update_total_times receives in the c-th call from outside is the sum of the
\* increments of all the recursive calls made so far, those of the earlier
\* calls included.
C36_TimeWastedNeverDecreases ==
  /\ [][\A p \in Procs :
          \/ time_wasted'[p] >= time_wasted[p]
          \/ p = LokyProcess /\ frames[LokyMain] = <<>>]_vars
  /\ [](\A t \in CallerThreads :
          (/\ behaviour = "recursive"
           /\ ~concurrent_execution
           /\ Depth(t) = 1
           /\ At(t, "wrapper", "update"))
            => time_wasted[MainProcess]
                 = calls[t] * Top(t).run_times * arg * GuardTicks)

\* The second call from outside is about to correct its durations: the
\* accumulator holds the increments of both calls.
C36_Witness ==
  \E t \in CallerThreads :
    /\ behaviour = "recursive" /\ arg >= 1 /\ ~concurrent_execution
    /\ calls[t] = 2
    /\ At(t, "wrapper", "update")
    /\ time_wasted[MainProcess] = 2 * Top(t).run_times * arg * GuardTicks

\* C37: the loop that follows a failed concurrent attempt runs the configured
\* run_times (clamped at line 217), not the count reduced at line 300: it ends
\* with that many durations, which are the ones reported, and it has invoked
\* the target that many times itself, after the replicas of the failed batch
\* (those of a thread pool are invocations in the caller's process).
C37_FallbackRunsConfiguredTimes ==
  /\ \A t \in Threads : \A k \in WrapperFrames(t) :
       LET f == frames[t][k]
       IN  f.fallback =>
             /\ f.run_times = Clamp(f.run_times_final)
             /\ f.run_times_final = run_times
             /\ f.pc \in {"update", "pop", "report"} =>
                  /\ Len(f.total_times) = f.run_times
                  /\ (f.outer /\ calls[t] = 1 /\ behaviour # "recursive")
                       => invocations[MainProcess] =
                            f.run_times
                              + (IF f.backend = "threading" THEN f.replicas ELSE 0)
  /\ \A t \in CallerThreads :
       (/\ outcome[t].status = "returned"
        /\ reported[t] >= 1
        /\ behaviour # "recursive"
        /\ "concurrent_failed" \in path[t]
        /\ "concurrent" \notin path[t])
         => Len(last_report.total_times) = Clamp(run_times)

\* Three runs were configured and two replicas dispatched; the batch failed
\* and the call has returned after reporting three durations.
C37_Witness ==
  \E t \in CallerThreads :
    /\ outcome[t].status = "returned"
    /\ reported[t] = 1
    /\ run_times = 3
    /\ num_cores = 3
    /\ behaviour = "crash_in_worker"
    /\ "concurrent_failed" \in path[t]
    /\ Len(last_report.total_times) = 3
    /\ invocations[MainProcess] = 3

\* Two replicas have been run by the threads of the caller's process and have
\* raised; the loop has then made the two configured runs.
C37_WitnessThreads ==
  \E t \in CallerThreads :
    /\ At(t, "wrapper", "update")
    /\ Top(t).fallback
    /\ Top(t).backend = "threading"
    /\ Top(t).replicas = 2
    /\ Len(Top(t).total_times) = 2
    /\ invocations[MainProcess] = 4

FracAdd(x, y) == Frac(x[1] * y[2] + y[1] * x[2], x[2] * y[2])

RECURSIVE FracSum(_)
FracSum(s) == IF s = <<>> THEN Frac(0, 1) ELSE FracAdd(s[1], FracSum(Tail(s)))

\* C38: the durations that a call hands to the report add up to no more than
\* its real_time, after the sequential loop, after a batch and after a
\* fallback; real_time is the time from line 218, before the strategy is
\* chosen, to line 225, so it spans the failed attempt as well.
C38_DurationsWithinRealTime ==
  /\ \A t \in Threads : \A k \in WrapperFrames(t) :
       LET f == frames[t][k]
       IN  f.pc \in {"pop", "report"} =>
             /\ ~FracLess(Frac(f.real_time, 1), FracSum(f.total_times))
             /\ k = Depth(t) => f.real_time = perf_counter[t] - f.fe_start
             /\ f.attempts >= 1 =>
                  /\ f.fe_start <= f.pool_start
                  /\ f.fallback => f.pool_start <= f.loop_start
  /\ ~FracLess(Frac(last_report.real_time, 1), FracSum(last_report.total_times))

\* A call has reported after a batch that failed: the real time is longer
\* than the sum of the durations of its loop.
C38_Witness ==
  \E t \in CallerThreads :
    /\ outcome[t].status = "returned"
    /\ reported[t] = 1
    /\ "concurrent_failed" \in path[t]
    /\ Len(last_report.total_times) >= 2
    /\ FracLess(FracSum(last_report.total_times), Frac(last_report.real_time, 1))

\* C39: a call goes through tempit_wrapper exactly when the flag was true
\* when the function was decorated, whatever the flag is when the call is
\* made: a name bound while the flag was true keeps measuring and reporting
\* after the flag is cleared, and one bound while it was false stays the
\* original function after the flag is set.
C39_FlagReadAtDecorationOnly ==
  \A t \in CallerThreads :
    /\ frames[t] # <<>> => (frames[t][1].fn = "wrapper" <=> ACTIVE)
    /\ outcome[t].status = "returned" => (reported[t] = 1 <=> ACTIVE)

\* The flag has been cleared after the decoration and the second call of the
\* function has entered tempit_wrapper.
C39_Witness ==
  /\ ACTIVE /\ ~ACTIVE_now
  /\ calls[MainThread] = 2
  /\ At(MainThread, "wrapper", "push_top")

\* The flag has been set after the decoration and the second call of the
\* function is running the original function.
C39_WitnessSetLater ==
  /\ ~ACTIVE /\ ACTIVE_now
  /\ calls[MainThread] = 2
  /\ At(MainThread, "target", "body")
  /\ Depth(MainThread) = 1

\* C40: tempit(f, run_times=N, concurrent_execution=c, verbose=v) binds a
\* wrapper that runs with the defaults, one sequential run reported in the
\* short form, whereas tempit(run_times=N, concurrent_execution=c,
\* verbose=v)(f) binds one that runs with N, c and v.
C40_KeywordsWithCallableIgnored ==
  /\ \A t \in Threads : \A k \in WrapperFrames(t) :
       LET f == frames[t][k]
       IN  (f.pc \notin Classifying \cup {"store"} /\ ~f.ret[3]) =>
             /\ decoration = "tempit(f, ...)" =>
                  (f.run_times_final = 1 /\ ~f.concurrent_execution_final)
             /\ decoration = "@tempit(...)" =>
                  /\ f.run_times_final = keywords.run_times
                  /\ f.concurrent_execution_final = keywords.concurrent_execution
  /\ \A t \in CallerThreads :
       (outcome[t].status = "returned" /\ reported[t] = 1) =>
         /\ decoration = "tempit(f, ...)" =>
              /\ last_report.form = "single"
              /\ Len(last_report.total_times) = 1
              /\ ~last_report.verbose
              /\ path[t] \subseteq {"sequential", "recursive"}
         /\ decoration = "@tempit(...)" =>
              /\ last_report.run_times = keywords.run_times
              /\ last_report.verbose = keywords.verbose

\* The function was passed together with run_times=3, concurrent_execution=True
\* and verbose=True; its call has returned after one run and a short report.
C40_Witness ==
  /\ decoration = "tempit(f, ...)"
  /\ keywords = [run_times |-> 3, concurrent_execution |-> TRUE, verbose |-> TRUE]
  /\ outcome[MainThread].status = "returned"
  /\ calls[MainThread] = 1
  /\ reported[MainThread] = 1
  /\ invocations[MainProcess] = 1
  /\ last_report.form = "single"
  /\ ~last_report.verbose

=============================================================================
